---- MODULE Spec2Model ----
(***************************************************************************)
(* Model of datasets/blender.py: BlenderDatasetBase.setup (scene assembly),*)
(* the two dataset views BlenderDataset / BlenderIterableDataset, and      *)
(* BlenderDataModule.setup.                                                *)
(*                                                                         *)
(* Python objects are modelled by their __dict__: a function whose DOMAIN  *)
(* is the set of attributes assigned so far.  The configuration and every  *)
(* JSON document are functions whose DOMAIN is the set of keys present, so *)
(* that `'k' in d` is "k" \in DOMAIN d and a missing key raises KeyError.   *)
(* Real numbers that the code divides are kept as exact quotients <<n, d>>;*)
(* a quotient with d = 0 is what IEEE division by zero yields (inf / nan). *)
(***************************************************************************)
EXTENDS Integers, Sequences, FiniteSets, TLC

VARIABLES
    config,      \* BlenderDataModule.config (constant after construction)
    disk,        \* contents of config.root_dir: path -> file content
    datamodule,  \* __dict__ of the BlenderDataModule: attribute -> dataset
    call,        \* the most recent constructor / setup call and its outcome
    gen,         \* generator returned by BlenderIterableDataset.__iter__
    ret          \* value last returned by __getitem__ / __len__ / next()

vars == <<config, disk, datamodule, call, gen, ret>>

----------------------------------------------------------------------------
(* Bounds of the model *)

MaxFrames == 2      \* longest 'frames' list of a metadata document
MaxSide == 3        \* largest width / height of a configured img_wh
MaxIndex == 2       \* largest index handed to __getitem__
MaxPulls == 2       \* the pull counter saturates here (pulling stays enabled)

----------------------------------------------------------------------------
(* Generic helpers *)

Set(obj, k, v) == (k :> v) @@ obj

\* a dictionary without keys
NoKeys == [k \in {} |-> 0]

Has(d, k) == k \in DOMAIN d

RECURSIVE ISqrtFrom(_, _)
ISqrtFrom(n, r) == IF (r + 1) * (r + 1) > n THEN r ELSE ISqrtFrom(n, r + 1)

\* floor of the square root; exact on the perfect squares the inputs produce
ISqrt(n) == ISqrtFrom(n, 0)

RECURSIVE SeqMin(_)
SeqMin(s) ==
    IF Len(s) = 1 THEN s[1]
    ELSE LET m == SeqMin(Tail(s)) IN IF s[1] < m THEN s[1] ELSE m

----------------------------------------------------------------------------
(* Exceptions *)

NoExc == "none"

\* state of a running BlenderDatasetBase.setup: the instance __dict__, the
\* locals of the function, and the exception raised (if any)
Frame0(cls) == [self |-> ("__class__" :> cls), loc |-> ("f" :> "setup"), exc |-> NoExc]

Raise(r, e) == [r EXCEPT !.exc = e]

SetAttr(r, k, v) == [r EXCEPT !.self = Set(r.self, k, v)]

SetLoc(r, k, v) == [r EXCEPT !.loc = Set(r.loc, k, v)]

----------------------------------------------------------------------------
(* BlenderDatasetBase.setup, lines 19-114 *)

\* lines 20-25
SetupHeader(r, cfg, split) ==
    LET r1 == SetAttr(SetAttr(SetAttr(r, "config", cfg), "split", split), "rank", 0)
        r2 == SetAttr(r1, "has_mask", TRUE)
    IN  SetAttr(r2, "apply_mask", r2.self.has_mask /\ cfg.apply_mask)

MetaPath(split) == <<"transforms", split, "json">>

\* lines 27-28
OpenMeta(r) ==
    IF r.exc # NoExc THEN r
    ELSE IF MetaPath(r.self.split) \in DOMAIN disk
         THEN SetLoc(r, "meta", disk[MetaPath(r.self.split)])
         ELSE Raise(r, "FileNotFoundError")

DefaultW == 800
DefaultH == 800

\* lines 30-33
NativeWH(meta) ==
    IF Has(meta, "w") /\ Has(meta, "h") THEN <<meta.w, meta.h>> ELSE <<DefaultW, DefaultH>>

\* Python round(n / d) for n >= 0, d > 0: round half to even
PyRound(n, d) ==
    LET q == n \div d
        rem == n - q * d
    IN  IF 2 * rem < d THEN q
        ELSE IF 2 * rem > d THEN q + 1
        ELSE IF q % 2 = 0 THEN q ELSE q + 1

\* the check of line 37 with the quotient truncated instead of rounded
AspectTruncated(W, H, w, h) == (W * h) \div w = H

\* line 37: round(W / w * h) == H
AspectOK(W, H, w, h) == PyRound(W * h, w) = H

\* lines 35-44
ResolveResolution(r) ==
    IF r.exc # NoExc THEN r
    ELSE LET cfg == r.self.config
             WH == NativeWH(r.loc.meta)
             W == WH[1]
             H == WH[2]
             Store(w, h) == SetAttr(SetAttr(SetAttr(r, "w", w), "h", h), "img_wh", <<w, h>>)
         IN  IF Has(cfg, "img_wh")
             THEN LET w == cfg.img_wh[1]
                      h == cfg.img_wh[2]
                  IN  IF w = 0 THEN Raise(r, "ZeroDivisionError")
                      ELSE IF ~AspectOK(W, H, w, h) THEN Raise(r, "AssertionError")
                      ELSE Store(w, h)
             ELSE IF Has(cfg, "img_downscale")
             THEN IF cfg.img_downscale = 0 THEN Raise(r, "ZeroDivisionError")
                  ELSE Store(W \div cfg.img_downscale, H \div cfg.img_downscale)
             ELSE Raise(r, "KeyError")

\* line 46
SetNearFar(r) ==
    IF r.exc # NoExc THEN r
    ELSE SetAttr(SetAttr(r, "near", r.self.config.near_plane),
                 "far", r.self.config.far_plane)

\* metadata key read by each assignment of the try block, and the attribute
\* it is assigned to (lines 49-54, in order)
CalibKeys == <<"fl_x", "fl_y", "cx", "cy", "k1", "k2">>
CalibAttrs == <<"focal_x", "focal_y", "cx", "cy", "k1", "k2">>

\* the try block from its i-th assignment on: stops at the first missing key
RECURSIVE TryCalibrated(_, _)
TryCalibrated(r, i) ==
    IF i > Len(CalibKeys) THEN SetLoc(r, "c3vd_data", TRUE)
    ELSE IF ~Has(r.loc.meta, CalibKeys[i]) THEN Raise(r, "KeyError")
    ELSE TryCalibrated(SetAttr(r, CalibAttrs[i], r.loc.meta[CalibKeys[i]]), i + 1)

\* line 57: 0.5 * w / math.tan(0.5 * camera_angle_x); the angle is given by
\* the quotient <<p, q>> = tan(angle / 2)
FovFocal(w, angle) == <<w * angle[2], 2 * angle[1]>>

\* the except branch keeping what the try block assigned before it raised
ExceptFovKeepsAssigned(r) ==
    LET meta == r.loc.meta
        clean == [r EXCEPT !.exc = NoExc]
        Default(x, k, v) == IF Has(x.self, k) THEN x ELSE SetAttr(x, k, v)
    IN  IF ~Has(meta, "camera_angle_x") THEN Raise(clean, "KeyError")
        ELSE IF meta.camera_angle_x[1] = 0 THEN Raise(clean, "ZeroDivisionError")
        ELSE LET f == FovFocal(r.self.w, meta.camera_angle_x)
                 r1 == Default(Default(clean, "focal_x", f), "focal_y", f)
                 r2 == Default(Default(r1, "cx", <<r.self.w \div 2, 1>>),
                               "cy", <<r.self.h \div 2, 1>>)
                 r3 == Default(Default(r2, "k1", <<0, 1>>), "k2", <<0, 1>>)
             IN  SetLoc(r3, "c3vd_data", FALSE)

\* lines 56-63: the except branch, entered with the partially assigned r
ExceptFov(r) ==
    LET meta == r.loc.meta
        clean == [r EXCEPT !.exc = NoExc]
    IN  IF ~Has(meta, "camera_angle_x") THEN Raise(clean, "KeyError")
        ELSE IF meta.camera_angle_x[1] = 0 THEN Raise(clean, "ZeroDivisionError")
        ELSE LET f == FovFocal(r.self.w, meta.camera_angle_x)
                 r1 == SetAttr(SetAttr(clean, "focal_x", f), "focal_y", f)
                 r2 == SetAttr(SetAttr(r1, "cx", <<r.self.w \div 2, 1>>),
                               "cy", <<r.self.h \div 2, 1>>)
                 r3 == SetAttr(SetAttr(r2, "k1", <<0, 1>>), "k2", <<0, 1>>)
             IN  SetLoc(r3, "c3vd_data", FALSE)

\* lines 48-63
ResolveIntrinsics(r) ==
    IF r.exc # NoExc THEN r
    ELSE LET t == TryCalibrated(r, 1)
         IN  IF t.exc = NoExc THEN t ELSE ExceptFov(t)

\* lines 66-67: get_ray_directions is imported from models.ray_utils; the
\* field is kept as the arguments it is computed from
RayDirections(r) ==
    IF r.exc # NoExc THEN r
    ELSE SetAttr(r, "directions",
                 <<r.self.w, r.self.h, r.self.focal_x, r.self.focal_y,
                   r.self.cx, r.self.cy, r.self.k1, r.self.k2>>)

\* line 69
InitLists(r) ==
    IF r.exc # NoExc THEN r
    ELSE SetAttr(SetAttr(SetAttr(r, "all_c2w", <<>>), "all_images", <<>>),
                 "all_fg_masks", <<>>)

\* line 72: [:3, :4] of the 4x4 (or 3x4) transform matrix
TopRows(m) == [i \in 1..3 |-> [j \in 1..4 |-> m[i][j]]]

\* line 74: c2w[:3, 1:3] *= -1
FlipColumns(c2w) ==
    [i \in 1..3 |-> [j \in 1..4 |-> IF j \in {2, 3} THEN -c2w[i][j] ELSE c2w[i][j]]]

\* line 77: root_dir / f"{file_path}.png"
ImgPath(file_path) == <<file_path[1], file_path[2], file_path[3] \o ".png">>

\* line 84: .replace("images", "depths").replace("color.png", "depth.tiff")
DepthPath(img_path) ==
    <<IF img_path[1] = "images" THEN "depths" ELSE img_path[1],
      img_path[2],
      IF img_path[3] = "color.png" THEN "depth.tiff" ELSE img_path[3]>>

\* an image tensor (h, w, C) is the sequence of its C channel planes; a plane
\* is a tuple of samples
OnesLike(plane) == [p \in DOMAIN plane |-> 1]

\* img[..., -1]
LastChannel(img) == img[Len(img)]

\* img[..., :3]
FirstThree(img) == SubSeq(img, 1, IF Len(img) < 3 THEN Len(img) ELSE 3)

\* lines 88-89: ones, then 0 where depth[..., 0] == 0
DepthMask(img, depth) == [p \in DOMAIN img[1] |-> IF depth[1][p] = 0 THEN 0 ELSE 1]

\* lines 82-94: r.exc = "none" and img is the loaded image tensor
FrameMask(r, img, img_path) ==
    IF r.self.apply_mask
    THEN IF r.loc.c3vd_data
         THEN IF DepthPath(img_path) \in DOMAIN disk
              THEN SetLoc(r, "mask", DepthMask(img, disk[DepthPath(img_path)]))
              ELSE Raise(r, "FileNotFoundError")
         ELSE SetLoc(r, "mask", LastChannel(img))
    ELSE SetLoc(r, "mask", OnesLike(img[1]))

\* lines 72-95: one iteration of the loop
LoadFrame(r, frame) ==
    IF ~(Has(frame, "transform_matrix") /\ Has(frame, "file_path")) THEN Raise(r, "KeyError")
    ELSE LET raw == TopRows(frame.transform_matrix)
             c2w == IF r.loc.c3vd_data THEN FlipColumns(raw) ELSE raw
             r1 == SetAttr(r, "all_c2w", Append(r.self.all_c2w, c2w))
             img_path == ImgPath(frame.file_path)
         IN  IF img_path \notin DOMAIN disk THEN Raise(r1, "FileNotFoundError")
             ELSE LET img == disk[img_path]
                      m == FrameMask(r1, img, img_path)
                  IN  IF m.exc # NoExc THEN m
                      ELSE SetAttr(SetAttr(m, "all_fg_masks",
                                           Append(m.self.all_fg_masks, m.loc.mask)),
                                   "all_images", Append(m.self.all_images, FirstThree(img)))

\* lines 71-95: the loop from frame i on
RECURSIVE LoadFrames(_, _)
LoadFrames(r, i) ==
    IF r.exc # NoExc \/ i > Len(r.loc.meta.frames) THEN r
    ELSE LoadFrames(LoadFrame(r, r.loc.meta.frames[i]), i + 1)

\* lines 97-100: torch.stack of an empty list raises
StackAll(r) ==
    IF r.exc # NoExc THEN r
    ELSE IF Len(r.self.all_c2w) = 0 THEN Raise(r, "RuntimeError")
    ELSE r

\* lines 71-100
LoadAll(r) ==
    IF r.exc # NoExc THEN r
    ELSE IF ~Has(r.loc.meta, "frames") THEN Raise(r, "KeyError")
    ELSE StackAll(LoadFrames(r, 1))

\* all_c2w[..., 3] of one pose
Translation(c2w) == <<c2w[1][4], c2w[2][4], c2w[3][4]>>

\* .norm(p=2, dim=-1) of one translation
Norm(t) == ISqrt(t[1] * t[1] + t[2] * t[2] + t[3] * t[3])

\* line 112
AutoScale(all_c2w) == SeqMin([i \in 1..Len(all_c2w) |-> Norm(Translation(all_c2w[i]))])

\* lines 106-113
ChooseScale(cfg, all_c2w) ==
    IF ~Has(cfg, "cam_downscale") THEN 1
    ELSE IF cfg.cam_downscale # 0 THEN cfg.cam_downscale
    ELSE AutoScale(all_c2w)

\* line 114: all_c2w[..., 3] /= scale
DivideTranslation(c2w, scale) ==
    [i \in 1..3 |-> [j \in 1..4 |-> IF j = 4 THEN <<c2w[i][j], scale>> ELSE c2w[i][j]]]

\* lines 105-114
Rescale(r) ==
    IF r.exc # NoExc THEN r
    ELSE LET scale == ChooseScale(r.self.config, r.self.all_c2w)
             r1 == SetLoc(r, "scale", scale)
         IN  SetAttr(r1, "all_c2w",
                     [i \in 1..Len(r.self.all_c2w) |->
                         DivideTranslation(r.self.all_c2w[i], scale)])

\* lines 19-114
DatasetSetup(cls, cfg, split) ==
    Rescale(LoadAll(InitLists(RayDirections(ResolveIntrinsics(SetNearFar(
        ResolveResolution(OpenMeta(SetupHeader(Frame0(cls), cfg, split)))))))))

----------------------------------------------------------------------------
(* Inputs: configurations and directory contents *)

Splits == {"train", "val", "test"}

\* options every configuration carries (section 6 of the design: required)
BaseConfig ==
    [root_dir |-> "root", train_split |-> "train", val_split |-> "val",
     test_split |-> "test", near_plane |-> 2, far_plane |-> 6, apply_mask |-> FALSE]

\* sample planes of the image files: two samples per plane
PlaneR == <<1, 1>>
PlaneG == <<1, 0>>
PlaneB == <<0, 0>>
PlaneA == <<0, 1>>
ImageFile(kind) ==
    IF kind = "rgba" THEN <<PlaneR, PlaneG, PlaneB, PlaneA>> ELSE <<PlaneR, PlaneG, PlaneB>>

\* a depth file after convert('L'): one channel, zero at the second sample
DepthFile == <<(<<7, 0>>)>>

FrameIds == <<"0", "1", "2", "3">>

FilePath(i) == <<"images", FrameIds[i], "color">>

\* 4x4 camera-to-world matrix with identity rotation and translation t
Pose4(t) ==
    <<(<<1, 0, 0, t[1]>>), (<<0, 1, 0, t[2]>>), (<<0, 0, 1, t[3]>>), (<<0, 0, 0, 1>>)>>

\* translations whose Euclidean norm is an integer (0, 5, 2, 10)
Translations == {<<0, 0, 0>>, <<0, 3, 4>>, <<0, 0, 2>>, <<-6, 0, 8>>}

\* a frame of the capture: its translation, the kind of its image file
\* ("none": the file is missing) and whether its depth file exists
FrameSpecs(ts, imgs, depths) == [t : ts, img : imgs, depth : depths]

SeqsUpTo(S, n) == UNION {[1..k -> S] : k \in 0..n}

FramesOf(fsp) ==
    [i \in 1..Len(fsp) |-> [transform_matrix |-> Pose4(fsp[i].t), file_path |-> FilePath(i)]]

ImgFiles(fsp) ==
    [p \in {ImgPath(FilePath(i)) : i \in {j \in 1..Len(fsp) : fsp[j].img # "none"}} |->
        ImageFile(fsp[CHOOSE j \in 1..Len(fsp) : ImgPath(FilePath(j)) = p].img)]

DepthFiles(fsp) ==
    [p \in {DepthPath(ImgPath(FilePath(i))) : i \in {j \in 1..Len(fsp) : fsp[j].depth}} |->
        DepthFile]

\* the same document under every split in S
MetaFiles(S, doc) == [p \in {MetaPath(s) : s \in S} |-> doc]

CalibValues ==
    [fl_x |-> <<5, 1>>, fl_y |-> <<6, 1>>, cx |-> <<7, 1>>, cy |-> <<8, 1>>,
     k1 |-> <<1, 10>>, k2 |-> <<2, 10>>]

\* the calibrated fields K of a document
CalibDoc(K) == [k \in K |-> CalibValues[k]]

AllCalib == {CalibKeys[i] : i \in 1..Len(CalibKeys)}

\* camera_angle_x with tan(angle / 2) = 1 / 2
AngleDoc == ("camera_angle_x" :> <<1, 2>>)

GoodFrame == [t |-> <<0, 3, 4>>, img |-> "rgba", depth |-> TRUE]

\* the image and depth files of a capture, with its document under every split
Capture(doc, fsp) ==
    MetaFiles(Splits, doc @@ ("frames" :> FramesOf(fsp))) @@ ImgFiles(fsp) @@ DepthFiles(fsp)

\* native resolutions a document declares: none, only 'w', or both fields
NativeDocs ==
    {("w" :> 4) @@ AngleDoc, AngleDoc}
    \cup {("w" :> wh[1]) @@ ("h" :> wh[2]) @@ AngleDoc :
              wh \in {<<4, 4>>, <<4, 2>>, <<3, 2>>, <<5, 2>>}}

\* the img_wh / img_downscale part of a configuration
ResolutionOptions ==
    {("img_wh" :> <<w, h>>) : w \in 0..MaxSide, h \in 1..MaxSide}
    \cup {("img_downscale" :> d) : d \in 0..2}
    \cup {("img_wh" :> wh) @@ ("img_downscale" :> 2) : wh \in {<<2, 2>>, <<2, 1>>}}
    \cup {NoKeys}

\* family 1: every resolution option against every native resolution
ResolutionInputs ==
    {[config |-> o @@ BaseConfig, disk |-> Capture(d, <<GoodFrame>>)] :
        o \in ResolutionOptions, d \in NativeDocs}

\* family 2: every subset of the calibrated fields, with and without the
\* field of view, at an even and an odd target width
IntrinsicsInputs ==
    {[config |-> ("img_downscale" :> 1) @@ BaseConfig,
      disk |-> Capture(CalibDoc(K) @@ a @@ n, <<GoodFrame>>)] :
        K \in SUBSET AllCalib,
        a \in {AngleDoc, NoKeys},
        n \in {("w" :> 4) @@ ("h" :> 2), ("w" :> 3) @@ ("h" :> 3)}}

\* family 3: image kinds and depth files of the frames, both conventions,
\* masking on and off
MaskInputs ==
    {[config |-> ("img_downscale" :> 1) @@ [BaseConfig EXCEPT !.apply_mask = m],
      disk |-> Capture(c @@ AngleDoc, fsp)] :
        m \in BOOLEAN,
        c \in {CalibDoc(AllCalib), NoKeys},
        fsp \in SeqsUpTo(FrameSpecs({<<0, 3, 4>>}, {"none", "rgb", "rgba"}, BOOLEAN),
                         MaxFrames)}

\* cam_downscale: absent, falsy (False / 0), or a positive value
RescaleOptions ==
    {NoKeys, ("cam_downscale" :> 0), ("cam_downscale" :> 2)}

\* family 4: frame translations against every rescale option
RescaleInputs ==
    {[config |-> o @@ ("img_downscale" :> 1) @@ BaseConfig,
      disk |-> Capture(c @@ AngleDoc, fsp)] :
        o \in RescaleOptions,
        c \in {CalibDoc(AllCalib), NoKeys},
        fsp \in SeqsUpTo(FrameSpecs(Translations, {"rgba"}, {TRUE}), MaxFrames)}

\* documents of family 5: complete; naming a third image that is missing;
\* lacking both the calibrated fields and the field of view
SplitDocs ==
    {AngleDoc @@ ("frames" :> FramesOf(<<GoodFrame, GoodFrame>>)),
     AngleDoc @@ ("frames" :> FramesOf(<<GoodFrame, GoodFrame, GoodFrame>>)),
     ("frames" :> FramesOf(<<GoodFrame>>))}

\* family 5: each split has its own document, or none
ModuleInputs ==
    {[config |-> ("img_downscale" :> 1) @@ BaseConfig,
      disk |-> [p \in {MetaPath(s) : s \in S} |-> docs[CHOOSE s \in S : MetaPath(s) = p]]
               @@ ImgFiles(<<GoodFrame, GoodFrame>>)] :
        S \in SUBSET Splits, docs \in [Splits -> SplitDocs]}

Inputs ==
    ResolutionInputs \cup IntrinsicsInputs \cup MaskInputs \cup RescaleInputs
    \cup ModuleInputs

----------------------------------------------------------------------------
(* BlenderDataModule *)

NoDataset == [self |-> ("__class__" :> "NoneType"), loc |-> ("f" :> "none"), exc |-> NoExc]

\* a call: what was called, with which argument, the exception it raised,
\* and the dataset instance whose setup ran last in it, as setup left it
NoCall == [op |-> "no call", arg |-> "", exc |-> NoExc, obj |-> NoDataset]

NoGen == [status |-> "none", pulls |-> 0]

NoRet == [op |-> "none", arg |-> "", value |-> {}]

\* lines 141-143: state after BlenderDataModule(config)
Init ==
    /\ \E inp \in Inputs : config = inp.config /\ disk = inp.disk
    /\ datamodule = ("config" :> config)
    /\ call = NoCall
    /\ gen = NoGen
    /\ ret = NoRet

Stages == {"None", "fit", "validate", "test", "predict"}

\* the statements of setup with the validation set left out of 'fit'
SetupStepsFitWithoutVal ==
    <<[attr |-> "train_dataset", cls |-> "BlenderIterableDataset",
       split |-> "train_split", stages |-> {"None", "fit"}],
      [attr |-> "val_dataset", cls |-> "BlenderDataset",
       split |-> "val_split", stages |-> {"None", "validate"}],
      [attr |-> "test_dataset", cls |-> "BlenderDataset",
       split |-> "test_split", stages |-> {"None", "test"}],
      [attr |-> "predict_dataset", cls |-> "BlenderDataset",
       split |-> "train_split", stages |-> {"None", "predict"}]>>

\* lines 146-153: the four statements of setup, in order: the attribute
\* assigned, the class constructed, the split option read, and the stages
\* under which the statement runs
SetupSteps ==
    <<[attr |-> "train_dataset", cls |-> "BlenderIterableDataset",
       split |-> "train_split", stages |-> {"None", "fit"}],
      [attr |-> "val_dataset", cls |-> "BlenderDataset",
       split |-> "val_split", stages |-> {"None", "fit", "validate"}],
      [attr |-> "test_dataset", cls |-> "BlenderDataset",
       split |-> "test_split", stages |-> {"None", "test"}],
      [attr |-> "predict_dataset", cls |-> "BlenderDataset",
       split |-> "train_split", stages |-> {"None", "predict"}]>>

\* lines 118-119, 131-132: __init__ of either class runs setup; the object is
\* returned only when setup returns
Construct(cls, cfg, split) == DatasetSetup(cls, cfg, split)

\* an assignment that binds the instance whether or not its setup raised
AssignAlways(dm, attr, obj) == Set(dm, attr, obj)

\* an assignment `self.attr = Cls(...)`: binds only when the constructor returns
Assign(dm, attr, obj) == IF obj.exc = NoExc THEN Set(dm, attr, obj) ELSE dm

\* lines 145-153 from statement i on: an exception ends the call
RECURSIVE RunSetup(_, _, _)
RunSetup(dm, stage, i) ==
    IF i > Len(SetupSteps) THEN [dm |-> dm, exc |-> NoExc, obj |-> NoDataset]
    ELSE IF stage \notin SetupSteps[i].stages THEN RunSetup(dm, stage, i + 1)
    ELSE LET st == SetupSteps[i]
             obj == Construct(st.cls, dm.config, dm.config[st.split])
             dm1 == Assign(dm, st.attr, obj)
         IN  IF obj.exc # NoExc THEN [dm |-> dm1, exc |-> obj.exc, obj |-> obj]
             ELSE RunSetup(dm1, stage, i + 1)

\* BlenderDataModule.setup(stage)
Setup(stage) ==
    LET out == RunSetup(datamodule, stage, 1)
    IN  /\ datamodule' = out.dm
        /\ call' = [op |-> "setup", arg |-> stage, exc |-> out.exc, obj |-> out.obj]
        /\ UNCHANGED <<config, disk, gen, ret>>

Classes == {"BlenderDataset", "BlenderIterableDataset"}

\* lines 117-132: Cls(config, split) called directly; an exception leaves
\* the caller without the instance
New(cls, split) ==
    LET obj == Construct(cls, config, split)
    IN  /\ call' = [op |-> "new", arg |-> cls, exc |-> obj.exc, obj |-> obj]
        /\ UNCHANGED <<config, disk, datamodule, gen, ret>>

DatasetAttrs == {SetupSteps[i].attr : i \in 1..Len(SetupSteps)}

\* attributes bound to an instance of the class with __getitem__ / __len__
IndexedAttrs ==
    {a \in DatasetAttrs \cap DOMAIN datamodule :
        datamodule[a].self["__class__"] = "BlenderDataset"}

\* lines 121-122
DatasetLen(ds) == Len(ds.self.all_images)

\* lines 124-127: the dictionary {'index': index} as its set of items
DatasetGetItem(ds, index) == {<<"index", index>>}

\* BlenderDataset.__len__ through a dataset attribute of the module
LenOf(attr) ==
    /\ attr \in IndexedAttrs
    /\ ret' = [op |-> "len", arg |-> attr, value |-> DatasetLen(datamodule[attr])]
    /\ UNCHANGED <<config, disk, datamodule, call, gen>>

\* BlenderDataset.__getitem__ through a dataset attribute of the module
GetItem(attr, index) ==
    /\ attr \in IndexedAttrs
    /\ ret' = [op |-> "getitem", arg |-> index,
               value |-> DatasetGetItem(datamodule[attr], index)]
    /\ UNCHANGED <<config, disk, datamodule, call, gen>>

\* lines 134-136: iter(train_dataset) creates the generator, suspended
\* before its first statement
Iter ==
    /\ "train_dataset" \in DOMAIN datamodule
    /\ datamodule.train_dataset.self["__class__"] = "BlenderIterableDataset"
    /\ gen' = [status |-> "suspended", pulls |-> 0]
    /\ UNCHANGED <<config, disk, datamodule, call, ret>>

\* a loop that ends after the first record
WhileFirst(g) == g.pulls < 1

\* line 135: the loop condition `True`
WhileCondition(g) == TRUE

\* lines 135-136: next(generator): run to the next yield, or return when
\* the loop ends (StopIteration)
GenNext(g) ==
    IF g.status = "suspended" /\ WhileCondition(g)
    THEN [gen |-> [status |-> "suspended",
                   pulls |-> IF g.pulls < MaxPulls THEN g.pulls + 1 ELSE g.pulls],
          ret |-> [op |-> "next", arg |-> "", value |-> {}]]
    ELSE [gen |-> [g EXCEPT !.status = "finished"],
          ret |-> [op |-> "StopIteration", arg |-> "", value |-> {}]]

Pull ==
    /\ gen.status # "none"
    /\ gen' = GenNext(gen).gen
    /\ ret' = GenNext(gen).ret
    /\ UNCHANGED <<config, disk, datamodule, call>>

\* lines 168-177: the dataset attribute each dataloader method reads
LoaderAttr ==
    [train_dataloader |-> "train_dataset", val_dataloader |-> "val_dataset",
     test_dataloader |-> "test_dataset", predict_dataloader |-> "predict_dataset"]

\* lines 158-177: a dataloader method; reading an unset attribute raises
Dataloader(method) ==
    /\ ret' = IF LoaderAttr[method] \in DOMAIN datamodule
              THEN [op |-> "DataLoader", arg |-> method,
                    value |-> {<<"dataset", LoaderAttr[method]>>, <<"batch_size", 1>>}]
              ELSE [op |-> "AttributeError", arg |-> method, value |-> {}]
    /\ UNCHANGED <<config, disk, datamodule, call, gen>>

----------------------------------------------------------------------------
(* Specifications *)

\* scene assembly over every input family
NextAssembly == \E cls \in Classes, split \in Splits : New(cls, split)

SpecAssembly == Init /\ [][NextAssembly]_vars

\* the data module with its access layer, over the per-split inputs
InitAccess ==
    /\ \E inp \in ModuleInputs : config = inp.config /\ disk = inp.disk
    /\ datamodule = ("config" :> config)
    /\ call = NoCall
    /\ gen = NoGen
    /\ ret = NoRet

Next ==
    \/ \E stage \in Stages : Setup(stage)
    \/ \E attr \in DatasetAttrs : LenOf(attr)
    \/ \E attr \in DatasetAttrs, index \in 0..MaxIndex : GetItem(attr, index)
    \/ Iter
    \/ Pull
    \/ \E method \in DOMAIN LoaderAttr : Dataloader(method)

Spec == InitAccess /\ [][Next]_vars

----------------------------------------------------------------------------
(* Properties of scene assembly (checked under SpecAssembly) *)

\* the last call was a dataset constructor and it returned
Assembled == call.op = "new" /\ call.exc = NoExc

\* the metadata document the last constructed dataset was given
CallDoc == disk[MetaPath(call.obj.self.split)]

\* the image file of frame i of the document
CallImage(i) == disk[ImgPath(CallDoc.frames[i].file_path)]

\* the depth file of frame i of the document
CallDepth(i) == disk[DepthPath(ImgPath(CallDoc.frames[i].file_path))]

ExactlyOneResolutionOption ==
    (Has(config, "img_wh") /\ ~Has(config, "img_downscale"))
    \/ (~Has(config, "img_wh") /\ Has(config, "img_downscale"))

\* C1: when the configuration holds neither or both of img_wh and
\* img_downscale, a dataset constructor fails and no target resolution is
\* chosen.
C1_NeitherOrBothFails ==
    (call.op = "new" /\ ~ExactlyOneResolutionOption)
        => (call.exc # NoExc /\ ~Has(call.obj.self, "w") /\ ~Has(call.obj.self, "h"))

\* C2: with apply_mask on the uncalibrated path, setup completes only when
\* every loaded image has a 4th (alpha) channel: an image without one makes
\* setup fail.
C2_MaskWithoutAlphaFails ==
    (Assembled /\ config.apply_mask /\ ~call.obj.loc.c3vd_data)
        => \A i \in 1..Len(CallDoc.frames) : Len(CallImage(i)) >= 4

\* C3: every scene that setup completes has scale > 0.
C3_ScalePositive == Assembled => call.obj.loc.scale > 0

\* the mask the priority order of C4 gives frame i
PolicyMaskHolds(i) ==
    LET mask == call.obj.self.all_fg_masks[i]
        img == CallImage(i)
    IN  IF ~config.apply_mask THEN \A p \in DOMAIN mask : mask[p] = 1
        ELSE IF call.obj.loc.c3vd_data
        THEN \A p \in DOMAIN mask : mask[p] = (IF CallDepth(i)[1][p] = 0 THEN 0 ELSE 1)
        ELSE Len(img) >= 4 /\ mask = img[4]

\* C4: the mask of every frame follows the priority order: all-ones when
\* apply_mask is false; else derived from depth when the calibrated
\* convention is active; else the alpha channel of the image.
C4_MaskPriority ==
    Assembled => \A i \in 1..Len(call.obj.self.all_fg_masks) : PolicyMaskHolds(i)

\* C5: after setup completes the intrinsics are all the metadata fields with
\* the flag true, or all derived from camera_angle_x with the flag false
\* (equal focal lengths, principal point at the centre pixel, zero
\* distortion): never a mixture.
C5_IntrinsicsTotal ==
    Assembled =>
        LET o == call.obj.self
            meta == CallDoc
        IN  \/ /\ call.obj.loc.c3vd_data
               /\ \A i \in 1..Len(CalibKeys) :
                      Has(meta, CalibKeys[i]) /\ o[CalibAttrs[i]] = meta[CalibKeys[i]]
            \/ /\ ~call.obj.loc.c3vd_data
               /\ Has(meta, "camera_angle_x")
               /\ o.focal_x = <<o.w * meta.camera_angle_x[2], 2 * meta.camera_angle_x[1]>>
               /\ o.focal_y = o.focal_x
               /\ o.cx = <<o.w \div 2, 1>> /\ o.cy = <<o.h \div 2, 1>>
               /\ o.k1 = <<0, 1>> /\ o.k2 = <<0, 1>>

\* C5 witness: setup completed on a document holding some but not all of
\* the calibrated fields, the first of them included
C5_Witness ==
    /\ Assembled
    /\ Has(CallDoc, "fl_x") /\ Has(CallDoc, "cx") /\ ~Has(CallDoc, "k1")
    /\ ~call.obj.loc.c3vd_data

\* the value of round(W / w * h) for the configured img_wh, from the
\* remainder of the division
RoundedHeight(W, w, h) ==
    LET q == (W * h) \div w
        twice == 2 * ((W * h) - q * w)
    IN  IF twice < w \/ (twice = w /\ q % 2 = 0) THEN q ELSE q + 1

\* C6: with img_wh = (w, h) configured, setup succeeds with target (w, h)
\* only if round(W / w * h) = H; otherwise it fails before a frame is loaded.
C6_AspectRatioChecked ==
    (call.op = "new" /\ Has(config, "img_wh")
        /\ MetaPath(call.obj.self.split) \in DOMAIN disk /\ config.img_wh[1] > 0) =>
        LET W == IF Has(CallDoc, "w") /\ Has(CallDoc, "h") THEN CallDoc.w ELSE 800
            H == IF Has(CallDoc, "w") /\ Has(CallDoc, "h") THEN CallDoc.h ELSE 800
            w == config.img_wh[1]
            h == config.img_wh[2]
        IN  /\ call.exc = NoExc =>
                   /\ RoundedHeight(W, w, h) = H
                   /\ call.obj.self.img_wh = <<w, h>>
            /\ RoundedHeight(W, w, h) # H =>
                   /\ call.exc # NoExc
                   /\ ~Has(call.obj.self, "all_c2w")
                   /\ ~Has(call.obj.self, "w")

\* C6 witness: img_wh = (2, 1) against a native 5 x 2 (5 / 2 * 1 = 2.5,
\* which rounds to the even 2) was accepted and the frame was loaded
C6_Witness ==
    /\ Assembled /\ Has(config, "img_wh")
    /\ config.img_wh = <<2, 1>> /\ Has(CallDoc, "w") /\ CallDoc.w = 5
    /\ Len(call.obj.self.all_c2w) = 1

\* translation of pose i after the rescale: three quotients <<n, d>>
ScaledTranslation(i) ==
    LET c2w == call.obj.self.all_c2w[i] IN <<c2w[1][4], c2w[2][4], c2w[3][4]>>

SumSquares(t) == t[1][1] * t[1][1] + t[2][1] * t[2][1] + t[3][1] * t[3][1]

\* the norm of a rescaled translation is finite and equals 1
NormIsOne(t) == t[1][2] # 0 /\ SumSquares(t) = t[1][2] * t[1][2]

\* the norm of a rescaled translation is finite and at least 1
NormAtLeastOne(t) == t[1][2] # 0 /\ SumSquares(t) >= t[1][2] * t[1][2]

\* C7: scale is 1 without the cam_downscale key, the configured value when
\* it is positive, and the minimum translation norm when it is falsy; all
\* translations are divided by it, so under auto-scale some frame has norm
\* exactly 1 and none a smaller one.
C7_RescalePolicy ==
    Assembled =>
        LET n == Len(call.obj.self.all_c2w)
            scale == call.obj.loc.scale
            frames == CallDoc.frames
            Sq(i) == frames[i].transform_matrix[1][4] * frames[i].transform_matrix[1][4]
                     + frames[i].transform_matrix[2][4] * frames[i].transform_matrix[2][4]
                     + frames[i].transform_matrix[3][4] * frames[i].transform_matrix[3][4]
        IN  /\ ~Has(config, "cam_downscale") => scale = 1
            /\ (Has(config, "cam_downscale") /\ config.cam_downscale > 0)
                   => scale = config.cam_downscale
            /\ (Has(config, "cam_downscale") /\ config.cam_downscale = 0) =>
                   /\ scale >= 0
                   /\ \E i \in 1..n : scale * scale = Sq(i)
                   /\ \A i \in 1..n : scale * scale <= Sq(i)
                   /\ \E i \in 1..n : NormIsOne(ScaledTranslation(i))
                   /\ \A i \in 1..n : NormAtLeastOne(ScaledTranslation(i))
            /\ \A i \in 1..n : \A k \in 1..3 :
                   ScaledTranslation(i)[k] = <<frames[i].transform_matrix[k][4], scale>>

----------------------------------------------------------------------------
(* Properties of the data module and its access layer (checked under Spec) *)

BoundAttrs == DatasetAttrs \cap DOMAIN datamodule

\* the attributes setup assigns to a dataset instance
SceneAttrs ==
    {"w", "h", "img_wh", "near", "far", "focal_x", "focal_y", "cx", "cy", "k1", "k2",
     "directions", "all_c2w", "all_images", "all_fg_masks"}

\* ds went through the whole of setup: every attribute assigned, one pose,
\* image and mask per frame of its document, translations rescaled
Complete(ds) ==
    /\ ds.exc = NoExc
    /\ SceneAttrs \subseteq DOMAIN ds.self
    /\ Has(ds.loc, "scale")
    /\ MetaPath(ds.self.split) \in DOMAIN disk
    /\ LET n == Len(disk[MetaPath(ds.self.split)].frames)
       IN  /\ Len(ds.self.all_c2w) = n
           /\ Len(ds.self.all_images) = n
           /\ Len(ds.self.all_fg_masks) = n

\* C8 as stated: after a failing BlenderDataModule.setup(stage) no dataset
\* attribute of the data module refers to a scene.
C8_FailedSetupBindsNothing ==
    (call.op = "setup" /\ call.exc # NoExc) => BoundAttrs = {}

\* C8 as amended: every dataset attribute that is set refers to a completely
\* assembled scene, and the instance whose setup raised is bound to none.
C8_OnlyCompleteScenesBound ==
    /\ \A a \in BoundAttrs : Complete(datamodule[a])
    /\ call.exc # NoExc =>
           /\ ~Complete(call.obj)
           /\ \A a \in BoundAttrs : datamodule[a] # call.obj

\* C8 witness: setup failed at the third frame of a split (three poses and
\* two images collected) after the training set had been bound
C8_Witness ==
    /\ call.op = "setup" /\ call.exc = "FileNotFoundError"
    /\ Has(call.obj.self, "all_c2w")
    /\ Len(call.obj.self.all_c2w) = 3 /\ Len(call.obj.self.all_images) = 2
    /\ "train_dataset" \in BoundAttrs

\* the split option each dataset attribute is constructed from
AttrSplit(a) == config[SetupSteps[CHOOSE i \in 1..Len(SetupSteps) : SetupSteps[i].attr = a].split]

\* C9: the generator of the streaming view never finishes and every pull
\* yields an empty record and leaves the datasets alone; the indexed view
\* has the length of the 'frames' list of its document and lookup at i
\* returns the record {'index': i}.
C9_StreamingNeverEnds ==
    /\ [](/\ gen.status # "finished"
          /\ ret.op # "StopIteration"
          /\ ret.op = "next" => ret.value = {}
          /\ ret.op = "len" => ret.value = Len(disk[MetaPath(AttrSplit(ret.arg))].frames)
          /\ ret.op = "getitem" => ret.value = {<<"index", ret.arg>>})
    /\ [][gen.status # "none" =>
             /\ ENABLED Pull
             /\ Pull => (ret'.op = "next" /\ gen'.status = "suspended"
                          /\ datamodule' = datamodule /\ disk' = disk)]_vars

\* C9 witness: a lookup at index 1 after the generator was pulled twice
C9_Witness ==
    /\ gen.status = "suspended" /\ gen.pulls >= 2
    /\ ret.op = "getitem" /\ ret.arg = 1

\* the dataloaders the trainer reads after setup(stage)
StageLoaders(stage) ==
    IF stage = "fit" THEN {"train_dataloader", "val_dataloader"}
    ELSE IF stage = "validate" THEN {"val_dataloader"}
    ELSE IF stage = "test" THEN {"test_dataloader"}
    ELSE IF stage = "predict" THEN {"predict_dataloader"}
    ELSE DOMAIN LoaderAttr

\* C10: every constructed dataset has the view of its run mode (train:
\* streaming; validation, test, predict: indexed), and after a successful
\* setup(stage) the datasets its dataloaders read have been constructed.
C10_ViewsWired ==
    /\ \A a \in BoundAttrs :
           datamodule[a].self["__class__"] =
               (IF a = "train_dataset" THEN "BlenderIterableDataset" ELSE "BlenderDataset")
    /\ (call.op = "setup" /\ call.exc = NoExc) =>
           \A m \in StageLoaders(call.arg) : LoaderAttr[m] \in BoundAttrs

\* C10 witness: setup('fit') succeeded after an earlier setup('test')
C10_Witness ==
    /\ call.op = "setup" /\ call.arg = "fit" /\ call.exc = NoExc
    /\ BoundAttrs = {"train_dataset", "val_dataset", "test_dataset"}

====
